---- MODULE Spec2Model ----
(***************************************************************************)
(* A model of the Entry content-script component of nova-translate         *)
(* (src/src/contents/entry.tsx): a React function component holding five   *)
(* pieces of state, one persisted preference, four effects (port listener, *)
(* hotkey binding, debounced scroll handler, outside-click handler) and    *)
(* two handlers (getTranslatedText, handleTargetLanguageChange).           *)
(*                                                                         *)
(* React semantics the model keeps:                                        *)
(*  - an event handler's setState calls are batched and committed in one   *)
(*    render; the model commits them in the handler's own step;            *)
(*  - a useEffect with dependencies runs its cleanup and body AFTER the    *)
(*    commit whose render changed a dependency, as a step of its own       *)
(*    (RunEffects); until then the callbacks registered by the previous    *)
(*    run stay registered and keep the values they closed over.  Effects   *)
(*    still pending when the next render starts are run before it;         *)
(*  - an effect with [] dependencies runs once, so its callback closes     *)
(*    over the first render's values for ever.                             *)
(*                                                                         *)
(* Strings are sequences of one-character strings.  Session ids are the    *)
(* numbers lodash's uniqueId() counts through ("1", "2", ...); 0 stands    *)
(* for the initial textId "".                                              *)
(***************************************************************************)
EXTENDS Integers, Sequences, FiniteSets, TLC

(* ------------------------------ bounds --------------------------------- *)
\* how many sessions (uniqueId() calls) a run may start
MaxSessions == 2
\* longest displayed text a run builds
MaxTargetLen == 2
\* most debounce timers pending at once (live one and orphaned ones)
MaxTimers == 2
\* scroll positions are 0..MaxScroll
MaxScroll == 1

(* ------------------------- program constants --------------------------- *)
\* debounce(..., 100)
Wait == 100
\* the model's clock advances in steps of half the debounce window
Tick == Wait \div 2
\* imported from @/config/common; its value is not part of src/
MAX_TRANSLATION_LENGTH == 2

Languages == {"en", "fr"}
DefaultLanguage == "en"

ZeroRect == [left |-> 0, right |-> 0, top |-> 0, bottom |-> 0]

\* what selection.toString() can return for a non-collapsed selection
RawTexts == { <<" ">>, <<" ", "a", "b", "c", " ">> }
\* streamed fragments and error messages the backend may send
Fragments == { <<"x">>, <<"y">> }
ErrorMessages == { <<"e">> }
\* localName of a mousedown target
Tags == {"plasmo-csui", "div"}

VARIABLES
  \* React state of Entry (useState / useStorage)
  sourceText, textId, targetText, showEntryPanel, sourceTextRect, targetLanguage,
  \* values closed over by the callbacks the effects registered
  listenerTextId,         \* textId seen by the subscribed aiPort listener
  scrollShowEntryPanel,   \* showEntryPanel seen by the registered handleScroll
  timers,                 \* pending debounce timers: [show, left, live]
  \* collaborators
  idCounter,              \* lodash uniqueId()'s counter
  sent,                   \* requests passed to aiPort.send, in order
  selection,              \* window.getSelection(): [kind, text]
  scrollY,                \* document scroll position
  mounted,                \* whether Entry is mounted
  \* history
  lastEvent,              \* the event handled by the last step
  status,                 \* the session's status as the spec defines it
  expected,               \* fragments of the current id delivered since start
  captured,               \* last capture gave a selection, no outside click since
  burst                   \* [age: ms since last scroll event (-1: none yet),
                          \*  fires: recompute calls since the burst began,
                          \*  steady: since the last scroll event the overlay
                          \*    has been visible over a non-collapsed selection,
                          \*    with no hotkey or pointer-down]

react == <<sourceText, textId, targetText, showEntryPanel, sourceTextRect, targetLanguage>>
closures == <<listenerTextId, scrollShowEntryPanel, timers>>
world == <<idCounter, sent, selection, scrollY, mounted>>
history == <<lastEvent, status, expected, captured, burst>>
vars == <<react, closures, world, history>>

(* ---------------------------- pure helpers ----------------------------- *)
Min(a, b) == IF a < b THEN a ELSE b

IsSpace(c) == c = " "

RECURSIVE trimStart(_)
trimStart(s) == IF s # <<>> /\ IsSpace(Head(s)) THEN trimStart(Tail(s)) ELSE s

RECURSIVE trimEnd(_)
trimEnd(s) ==
  IF s # <<>> /\ IsSpace(s[Len(s)]) THEN trimEnd(SubSeq(s, 1, Len(s) - 1)) ELSE s

\* String.prototype.trim
trim(s) == trimEnd(trimStart(s))

\* the capture without its cap: the whole trimmed selection is kept
slice_noCap(s, n) == s

\* String.prototype.slice(0, n)
slice(s, n) == SubSeq(s, 1, Min(n, Len(s)))

\* a || b on strings: the empty string is falsy
JsOr(a, b) == IF a # <<>> THEN a ELSE b

\* range.getBoundingClientRect(): viewport coordinates move with the scroll
getBoundingClientRect ==
  [left |-> 2, right |-> 6, top |-> 20 - 4 * scrollY, bottom |-> 24 - 4 * scrollY]

\* the anchor with the halving of the width left out
entryPanelPositionOf_fullWidth(rect) ==
  [x |-> rect.left + (rect.right - rect.left), y |-> rect.bottom + 10]

\* the useMemo: bottom middle of the selected text
entryPanelPositionOf(rect) ==
  [x |-> rect.left + (rect.right - rect.left) \div 2, y |-> rect.bottom + 10]

entryPanelPosition == entryPanelPositionOf(sourceTextRect)

\* a hotkey press, a pointer-down or a change of the selection ends the steady
\* stretch that began with the last scroll event
Unsteady == [burst EXCEPT !.steady = FALSE]

Event(type, uid, arg, pre) == [type |-> type, uid |-> uid, arg |-> arg, pre |-> pre]

Visibility(b) == IF b THEN "visible" ELSE "hidden"

(* ------------------------------- Init ---------------------------------- *)
Init ==
  /\ sourceText = <<>>
  /\ textId = 0
  /\ targetText = <<>>
  /\ showEntryPanel = FALSE
  /\ sourceTextRect = ZeroRect
  /\ targetLanguage = DefaultLanguage
  /\ listenerTextId = 0
  /\ scrollShowEntryPanel = FALSE
  /\ timers = <<>>
  /\ idCounter = 0
  /\ sent = <<>>
  /\ selection = [kind |-> "collapsed", text |-> <<>>]
  /\ scrollY = 0
  /\ mounted = TRUE
  /\ lastEvent = Event("mount", 0, "", "")
  /\ status = "Idle"
  /\ expected = <<>>
  /\ captured = FALSE
  /\ burst = [age |-> -1, fires |-> 0, steady |-> FALSE]

(* ------------------------ effects and closures ------------------------- *)
\* Cleanup of the scroll effect removes the old debounced handleScroll from the
\* document but does not cancel it: a timer it armed stays pending, orphaned.
Detach(ts) == [i \in DOMAIN ts |-> [ts[i] EXCEPT !.live = FALSE]]

\* The effects keyed on [textId] and [showEntryPanel] run against the last
\* commit: the listener is re-subscribed with that commit's textId, and a fresh
\* debounced handleScroll closes over that commit's showEntryPanel.  `ts` are
\* the timers left by the handler whose render makes the effects run.
EffectsRun(ts) ==
  /\ listenerTextId' = textId
  /\ scrollShowEntryPanel' = showEntryPanel
  /\ timers' = IF scrollShowEntryPanel # showEntryPanel THEN Detach(ts) ELSE ts

\* the passive effects of the last commit run on their own, after the commit
RunEffects ==
  /\ mounted
  /\ listenerTextId # textId \/ scrollShowEntryPanel # showEntryPanel
  /\ EffectsRun(timers)
  /\ lastEvent' = Event("effects", 0, "", "")
  /\ UNCHANGED <<react, world, status, expected, captured, burst>>

(* --------------------------- translation session ----------------------- *)
\* getTranslatedText without its setTargetText(""): the old translation stays up
getTranslatedText_keepsText(selectedText, closureSourceText) ==
  /\ idCounter < MaxSessions
  /\ idCounter' = idCounter + 1
  /\ textId' = idCounter + 1
  /\ targetText' = targetText
  /\ sourceText' = selectedText
  /\ sent' = Append(sent, [uniqueId |-> idCounter + 1,
                           text |-> JsOr(selectedText, closureSourceText)])
  /\ status' = "Requested"
  /\ expected' = <<>>

\* getTranslatedText sending the sourceText of the state instead of its argument
getTranslatedText_sendsOldText(selectedText, closureSourceText) ==
  /\ idCounter < MaxSessions
  /\ idCounter' = idCounter + 1
  /\ textId' = idCounter + 1
  /\ targetText' = <<>>
  /\ sourceText' = selectedText
  /\ sent' = Append(sent, [uniqueId |-> idCounter + 1, text |-> sourceText])
  /\ status' = "Requested"
  /\ expected' = <<>>

\* getTranslatedText with an id that is not fresh: the same id for every session
getTranslatedText_sameId(selectedText, closureSourceText) ==
  /\ idCounter < MaxSessions
  /\ idCounter' = idCounter + 1
  /\ textId' = 1
  /\ targetText' = <<>>
  /\ sourceText' = selectedText
  /\ sent' = Append(sent, [uniqueId |-> 1,
                           text |-> JsOr(selectedText, closureSourceText)])
  /\ status' = "Requested"
  /\ expected' = <<>>

\* getTranslatedText as called from a closure whose sourceText is closureSourceText
getTranslatedText(selectedText, closureSourceText) ==
  /\ idCounter < MaxSessions
  /\ idCounter' = idCounter + 1
  /\ textId' = idCounter + 1
  /\ targetText' = <<>>
  /\ sourceText' = selectedText
  /\ sent' = Append(sent, [uniqueId |-> idCounter + 1,
                           text |-> JsOr(selectedText, closureSourceText)])
  /\ status' = "Requested"
  /\ expected' = <<>>

\* the picker's onSelect; the picker is rendered only inside the visible panel
handleTargetLanguageChange(language) ==
  /\ mounted
  /\ showEntryPanel
  /\ targetLanguage' = language
  /\ getTranslatedText(sourceText, sourceText)
  /\ EffectsRun(timers)
  /\ lastEvent' = Event("language", idCounter + 1, language, status)
  /\ UNCHANGED <<showEntryPanel, sourceTextRect, selection, scrollY, mounted,
                 captured, burst>>

\* the guard of the subscribed listener: it compares with the textId it closed over
isStale(uniqueId) == uniqueId # listenerTextId

\* the session status of the spec's state machine after a response for `uniqueId`
statusAfter(messageType, uniqueId) ==
  IF uniqueId # textId THEN status
  ELSE IF messageType = "TRANSLATE_TEXT_ERROR" THEN "Errored"
  ELSE IF status \in {"Errored", "Completed"} THEN status
  ELSE "Streaming"

\* a message from the backend reaches the listener registered by aiPort.listen
PortMessage(messageType, uniqueId, text) ==
  /\ mounted
  /\ uniqueId \in 1..idCounter
  /\ messageType = "TRANSLATE_TEXT_PART" =>
       /\ ~isStale(uniqueId) => Len(targetText) + Len(text) <= MaxTargetLen
       /\ uniqueId = textId => Len(expected) + Len(text) <= MaxTargetLen
  /\ IF isStale(uniqueId)
       THEN UNCHANGED <<targetText, closures>>
       ELSE /\ targetText' = IF messageType = "TRANSLATE_TEXT_PART"
                               THEN targetText \o text
                               ELSE text
            /\ EffectsRun(timers)
  /\ status' = statusAfter(messageType, uniqueId)
  /\ expected' = IF messageType = "TRANSLATE_TEXT_PART" /\ uniqueId = textId
                   THEN expected \o text
                   ELSE expected
  /\ lastEvent' = Event(messageType, uniqueId, text, "")
  /\ UNCHANGED <<sourceText, textId, showEntryPanel, sourceTextRect, targetLanguage,
                 world, captured, burst>>

(* ------------------------------- hotkey -------------------------------- *)
\* the Mousetrap callback, bound once: its getTranslatedText closes over the
\* first render's sourceText, the empty string
HotkeyPressed ==
  /\ mounted
  /\ lastEvent' = Event("hotkey", 0, selection.kind, Visibility(showEntryPanel))
  /\ CASE selection.kind = "null" ->
            /\ captured' = FALSE
            /\ burst' = Unsteady
            /\ UNCHANGED <<react, closures, world, status, expected>>
       [] selection.kind = "collapsed" ->
            /\ showEntryPanel' = FALSE
            /\ EffectsRun(timers)
            /\ captured' = FALSE
            /\ burst' = Unsteady
            /\ UNCHANGED <<sourceText, textId, targetText, sourceTextRect,
                           targetLanguage, world, status, expected>>
       [] selection.kind = "range" ->
            /\ showEntryPanel' = TRUE
            /\ sourceTextRect' = getBoundingClientRect
            /\ getTranslatedText(slice(trim(selection.text), MAX_TRANSLATION_LENGTH), <<>>)
            /\ EffectsRun(timers)
            /\ captured' = TRUE
            /\ burst' = Unsteady
            /\ UNCHANGED <<targetLanguage, selection, scrollY, mounted>>

(* ------------------------------ overlay -------------------------------- *)
\* the check made against the element's id, which the overlay root does not carry
isExtensionElement_byId(tag) == FALSE

\* "do not hide if click on the extension element"
isExtensionElement(tag) == tag = "plasmo-csui"

\* handleMouseDown without its setSourceTextRect: the overlay hides, the rect stays
handleMouseDown_keepsRect(tag) ==
  /\ mounted
  /\ lastEvent' = Event("mousedown", 0, tag, Visibility(showEntryPanel))
  /\ IF isExtensionElement(tag)
       THEN UNCHANGED <<react, closures, captured>>
       ELSE /\ showEntryPanel' = FALSE
            /\ EffectsRun(timers)
            /\ captured' = FALSE
            /\ UNCHANGED <<sourceText, textId, targetText, sourceTextRect, targetLanguage>>
  /\ burst' = Unsteady
  /\ UNCHANGED <<world, status, expected>>

\* handleMouseDown also dropping the translation when it hides the overlay
handleMouseDown_clearsText(tag) ==
  /\ mounted
  /\ lastEvent' = Event("mousedown", 0, tag, Visibility(showEntryPanel))
  /\ IF isExtensionElement(tag)
       THEN UNCHANGED <<react, closures, captured>>
       ELSE /\ showEntryPanel' = FALSE
            /\ sourceTextRect' = ZeroRect
            /\ targetText' = <<>>
            /\ EffectsRun(timers)
            /\ captured' = FALSE
            /\ UNCHANGED <<sourceText, textId, targetLanguage>>
  /\ burst' = Unsteady
  /\ UNCHANGED <<world, status, expected>>

\* the mousedown listener on the document
handleMouseDown(tag) ==
  /\ mounted
  /\ lastEvent' = Event("mousedown", 0, tag, Visibility(showEntryPanel))
  /\ IF isExtensionElement(tag)
       THEN UNCHANGED <<react, closures, captured>>
       ELSE /\ showEntryPanel' = FALSE
            /\ sourceTextRect' = ZeroRect
            /\ EffectsRun(timers)
            /\ captured' = FALSE
            /\ UNCHANGED <<sourceText, textId, targetText, targetLanguage>>
  /\ burst' = Unsteady
  /\ UNCHANGED <<world, status, expected>>

\* lodash debounce, trailing edge: a call re-arms the instance's timer
debounced(ts) ==
  IF \E i \in DOMAIN ts : ts[i].live
    THEN [i \in DOMAIN ts |-> IF ts[i].live THEN [ts[i] EXCEPT !.left = Wait] ELSE ts[i]]
    ELSE Append(ts, [show |-> scrollShowEntryPanel, left |-> Wait, live |-> TRUE])

\* a scroll event reaches the registered (debounced) handleScroll
ScrollEvent ==
  /\ mounted
  /\ \E y \in (0..MaxScroll) \ {scrollY} : scrollY' = y
  /\ Len(debounced(timers)) <= MaxTimers
  /\ timers' = debounced(timers)
  /\ burst' = [age |-> 0,
               fires |-> IF burst.age \in 0..(Wait - 1) THEN burst.fires ELSE 0,
               steady |-> showEntryPanel /\ selection.kind = "range"]
  /\ lastEvent' = Event("scroll", 0, "", "")
  /\ UNCHANGED <<react, listenerTextId, scrollShowEntryPanel, idCounter, sent,
                 selection, mounted, status, expected, captured>>

Remove(ts, i) == SubSeq(ts, 1, i - 1) \o SubSeq(ts, i + 1, Len(ts))

\* the body handleScroll debounces, run with the showEntryPanel it closed over:
\* whether it reaches setSourceTextRect
recomputes(show) == show /\ selection.kind = "range"

\* a debounce timer expires and runs its callback
TimerFires(i) ==
  /\ i \in DOMAIN timers
  /\ timers[i].left = 0
  /\ IF recomputes(timers[i].show)
       THEN /\ sourceTextRect' = getBoundingClientRect
            /\ EffectsRun(Remove(timers, i))
       ELSE /\ timers' = Remove(timers, i)
            /\ UNCHANGED <<sourceTextRect, listenerTextId, scrollShowEntryPanel>>
  /\ burst' = [burst EXCEPT !.fires = Min(@ + 1, 2)]
  /\ lastEvent' = Event("recompute", 0, Visibility(timers[i].show), Visibility(showEntryPanel))
  /\ UNCHANGED <<sourceText, textId, targetText, showEntryPanel, targetLanguage,
                 world, status, expected, captured>>

(* ----------------------------- environment ----------------------------- *)
Selections ==
  {[kind |-> "null", text |-> <<>>], [kind |-> "collapsed", text |-> <<>>]}
    \cup {[kind |-> "range", text |-> t] : t \in RawTexts}

\* the user selects other text, collapses the selection, or it goes away
SelectionChange ==
  /\ \E s \in Selections \ {selection} : selection' = s
  /\ lastEvent' = Event("select", 0, "", "")
  /\ burst' = Unsteady
  /\ UNCHANGED <<react, closures, idCounter, sent, scrollY, mounted, status,
                 expected, captured>>

\* time passes; a timer that is due fires before the clock moves on
TimePasses ==
  /\ timers # <<>> \/ burst.age \in 0..(Wait - 1)
  /\ \A i \in DOMAIN timers : timers[i].left > 0
  /\ timers' = [i \in DOMAIN timers |-> [timers[i] EXCEPT !.left = @ - Tick]]
  /\ burst' = [burst EXCEPT !.age = IF @ < 0 THEN @ ELSE Min(@ + Tick, Wait)]
  /\ lastEvent' = Event("tick", 0, "", "")
  /\ UNCHANGED <<react, listenerTextId, scrollShowEntryPanel, world, status,
                 expected, captured>>

(* ------------------------------ lifecycle ------------------------------ *)
\* Entry unmounts: the cleanups disconnect the port listener and remove the
\* scroll and mousedown listeners.  The Mousetrap effect returns no cleanup, so
\* the callback stays bound.  A debounce timer still pending can only call the
\* setter of the unmounted component, which does nothing: it is dropped here.
Unmount ==
  /\ mounted
  /\ mounted' = FALSE
  /\ timers' = <<>>
  /\ lastEvent' = Event("unmount", 0, "", "")
  /\ burst' = Unsteady
  /\ UNCHANGED <<react, listenerTextId, scrollShowEntryPanel, idCounter, sent,
                 selection, scrollY, status, expected, captured>>

\* Entry mounts again: fresh useState values (the target language comes from
\* storage), effects run against them, and Mousetrap.bind replaces the callback
\* bound to the same combination.  lodash's counter is module state and goes on.
Mount ==
  /\ ~mounted
  /\ mounted' = TRUE
  /\ sourceText' = <<>>
  /\ textId' = 0
  /\ targetText' = <<>>
  /\ showEntryPanel' = FALSE
  /\ sourceTextRect' = ZeroRect
  /\ listenerTextId' = 0
  /\ scrollShowEntryPanel' = FALSE
  /\ lastEvent' = Event("mount", 0, "", "")
  /\ status' = "Idle"
  /\ expected' = <<>>
  /\ captured' = FALSE
  /\ UNCHANGED <<targetLanguage, timers, idCounter, sent, selection, scrollY, burst>>

\* the Mousetrap callback of an unmounted Entry: the state setters do nothing,
\* uniqueId() and aiPort.send are still called; whether the port of the
\* unmounted usePort still carries the request is left open
HotkeyAfterUnmount ==
  /\ ~mounted
  /\ lastEvent' = Event("hotkey", 0, selection.kind, "unmounted")
  /\ IF selection.kind = "range"
       THEN /\ idCounter < MaxSessions
            /\ idCounter' = idCounter + 1
            /\ \E carried \in BOOLEAN :
                 sent' = IF carried
                           THEN Append(sent,
                                  [uniqueId |-> idCounter + 1,
                                   text |-> JsOr(slice(trim(selection.text),
                                                       MAX_TRANSLATION_LENGTH), <<>>)])
                           ELSE sent
       ELSE UNCHANGED <<idCounter, sent>>
  /\ UNCHANGED <<react, closures, selection, scrollY, mounted, status, expected,
                 captured, burst>>

Next ==
  \/ HotkeyPressed
  \/ \E language \in Languages : handleTargetLanguageChange(language)
  \/ \E uniqueId \in 1..MaxSessions, text \in Fragments :
       PortMessage("TRANSLATE_TEXT_PART", uniqueId, text)
  \/ \E uniqueId \in 1..MaxSessions, text \in ErrorMessages :
       PortMessage("TRANSLATE_TEXT_ERROR", uniqueId, text)
  \/ RunEffects
  \/ \E tag \in Tags : handleMouseDown(tag)
  \/ ScrollEvent
  \/ \E i \in 1..MaxTimers : TimerFires(i)
  \/ SelectionChange
  \/ TimePasses
  \/ Unmount
  \/ Mount
  \/ HotkeyAfterUnmount

Spec == Init /\ [][Next]_vars

(***************************************************************************)
(* The session state (sourceText, textId, targetText, the listener's       *)
(* closure, the requests sent) is neither read nor written by the scroll   *)
(* events, the debounce timers and the clock, and the overlay state        *)
(* (showEntryPanel, sourceTextRect, the scroll handler's closure, the      *)
(* timers) is neither read nor written by the port messages.  The only     *)
(* coupling is that a render caused by one side runs the pending effects   *)
(* of the other, which RunEffects can do at any time anyway.  So every     *)
(* behaviour of Spec, projected on either side's variables, is a behaviour *)
(* of that side's specification, and a property of those variables checked *)
(* on the side's specification holds of Spec.                              *)
(***************************************************************************)
SessionNext ==
  \/ HotkeyPressed
  \/ \E language \in Languages : handleTargetLanguageChange(language)
  \/ \E uniqueId \in 1..MaxSessions, text \in Fragments :
       PortMessage("TRANSLATE_TEXT_PART", uniqueId, text)
  \/ \E uniqueId \in 1..MaxSessions, text \in ErrorMessages :
       PortMessage("TRANSLATE_TEXT_ERROR", uniqueId, text)
  \/ RunEffects
  \/ \E tag \in Tags : handleMouseDown(tag)
  \/ SelectionChange

SessionSpec == Init /\ [][SessionNext]_vars

OverlayNext ==
  \/ HotkeyPressed
  \/ RunEffects
  \/ \E tag \in Tags : handleMouseDown(tag)
  \/ ScrollEvent
  \/ \E i \in 1..MaxTimers : TimerFires(i)
  \/ SelectionChange
  \/ TimePasses

OverlaySpec == Init /\ [][OverlayNext]_vars

(***************************************************************************)
(* A specification for the events that start no session, taken together    *)
(* with the port messages: the hotkey, the pointer-down, the scroll events *)
(* and their recompute, and the fragments of the backend.  To keep it      *)
(* small it follows one session fewer than MaxSessions, one pending        *)
(* debounce timer at a time and one fragment text.                         *)
(***************************************************************************)
FrameNext ==
  \/ HotkeyPressed /\ idCounter' < MaxSessions
  \/ \E uniqueId \in 1..MaxSessions :
       PortMessage("TRANSLATE_TEXT_PART", uniqueId, <<"x">>)
  \/ RunEffects
  \/ \E tag \in Tags : handleMouseDown(tag)
  \/ ScrollEvent /\ Len(timers') <= 1
  \/ \E i \in 1..MaxTimers : TimerFires(i)
  \/ SelectionChange
  \/ TimePasses

FrameSpec == Init /\ [][FrameNext]_vars

(***************************************************************************)
(* The session with the component's lifecycle: Entry may unmount and mount *)
(* again, and the hotkey may be pressed at any time.                       *)
(***************************************************************************)
LifecycleNext ==
  \/ HotkeyPressed
  \/ \E language \in Languages : handleTargetLanguageChange(language)
  \/ \E uniqueId \in 1..MaxSessions, text \in Fragments :
       PortMessage("TRANSLATE_TEXT_PART", uniqueId, text)
  \/ RunEffects
  \/ \E tag \in Tags : handleMouseDown(tag)
  \/ SelectionChange
  \/ Unmount
  \/ Mount
  \/ HotkeyAfterUnmount

LifecycleSpec == Init /\ [][LifecycleNext]_vars

(* ============================== claims ================================= *)
IsResponse(e) == e.type \in {"TRANSLATE_TEXT_PART", "TRANSLATE_TEXT_ERROR"}

\* C1 (as claimed): a TRANSLATE_TEXT_PART or TRANSLATE_TEXT_ERROR message
\* tagged with the id of a superseded session never changes the displayed text.
C1_StaleNeverChangesText ==
  [][(IsResponse(lastEvent') /\ lastEvent'.uid # textId) => targetText' = targetText]_vars

\* C2 (as claimed): while the current session has had no error delivered, the
\* displayed text is the concatenation, in delivery order, of the fragments
\* carrying the current id delivered since the session started.
C2_DisplayedIsConcatenation ==
  status \in {"Requested", "Streaming"} => targetText = expected

\* C3: a language change while the session is Streaming empties the displayed
\* text and starts a session with a new id and the old sourceText, which is also
\* the text of the one request it sends.
C3_LanguageChangeRestarts ==
  [][(lastEvent'.type = "language" /\ status = "Streaming") =>
       /\ targetText' = <<>>
       /\ textId' # textId
       /\ sourceText' = sourceText
       /\ sent' = Append(sent, [uniqueId |-> textId', text |-> sourceText])
       /\ status' = "Requested"]_vars

C3_Witness ==
  /\ lastEvent.type = "language"
  /\ lastEvent.pre = "Streaming"
  /\ lastEvent.arg # DefaultLanguage
  /\ sourceText # <<>>
  /\ targetText = <<>>
  /\ textId = 2

\* C4 (as claimed): an error message carrying the current session id makes the
\* displayed text exactly its message and the session Errored; one carrying
\* any other id leaves the displayed text alone.
C4_ErrorReplacesText ==
  [][lastEvent'.type = "TRANSLATE_TEXT_ERROR" =>
       IF lastEvent'.uid = textId
         THEN targetText' = lastEvent'.arg /\ status' = "Errored"
         ELSE targetText' = targetText]_vars

\* C5 (as claimed): the overlay is visible exactly when the last hotkey capture
\* gave a non-collapsed selection and no outside pointer-down came since.
C5_VisibleIffCaptured == showEntryPanel = captured

\* C6 (as claimed): a hotkey press that finds no selection or a collapsed one
\* hides the overlay and zeroes the stored rect.
C6_NoSelectionHidesAndZeroes ==
  (lastEvent.type = "hotkey" /\ lastEvent.arg \in {"null", "collapsed"}) =>
    (~showEntryPanel /\ sourceTextRect = ZeroRect)

\* C7 (as claimed): a pointer-down outside the overlay's root, with the overlay
\* visible, hides it and puts the anchor at {x: 0, y: 0}.
C7_OutsideClickAnchorZero ==
  (lastEvent.type = "mousedown" /\ lastEvent.arg # "plasmo-csui"
     /\ lastEvent.pre = "visible") =>
    (~showEntryPanel /\ entryPanelPosition = [x |-> 0, y |-> 0])

\* C7 (amended): a pointer-down outside the overlay's root, with the overlay
\* visible, hides it and zeroes the stored rect; the anchor computed from the
\* zero rect is {x: 0, y: 10}.
C7_OutsideClickZeroesRect ==
  (lastEvent.type = "mousedown" /\ lastEvent.arg # "plasmo-csui"
     /\ lastEvent.pre = "visible") =>
    /\ ~showEntryPanel
    /\ sourceTextRect = ZeroRect
    /\ entryPanelPosition = [x |-> 0, y |-> 10]

C7_Witness ==
  /\ lastEvent.type = "mousedown"
  /\ lastEvent.arg = "div"
  /\ lastEvent.pre = "visible"
  /\ ~showEntryPanel
  /\ selection.kind = "range"

\* C8: a pointer-down on the overlay's own root element (tag plasmo-csui)
\* changes neither the overlay's visibility nor the stored rect and anchor.
C8_InsideClickChangesNothing ==
  [][(lastEvent'.type = "mousedown" /\ lastEvent'.arg = "plasmo-csui") =>
       /\ showEntryPanel' = showEntryPanel
       /\ sourceTextRect' = sourceTextRect
       /\ entryPanelPosition' = entryPanelPosition]_vars

C8_Witness ==
  /\ lastEvent.type = "mousedown"
  /\ lastEvent.arg = "plasmo-csui"
  /\ lastEvent.pre = "visible"
  /\ showEntryPanel

\* C9 (as claimed): a burst of scroll events, each less than Wait after the one
\* before, gets exactly one recompute call, made Wait after the burst's last
\* event and reading the selection's position as it is then.
C9_OneRecomputePerBurst ==
  /\ burst.fires <= 1
  /\ lastEvent.type = "recompute" => burst.age = Wait
  /\ (burst.age = Wait /\ timers = <<>>) => burst.fires = 1
  /\ (lastEvent.type = "recompute" /\ lastEvent.arg = "visible"
        /\ selection.kind = "range") => sourceTextRect = getBoundingClientRect

\* C10 (as claimed): a recompute changes the stored rect only if, when it
\* fires, the overlay is visible and a non-collapsed selection exists.
C10_RecomputeOnlyWhenVisible ==
  [][(lastEvent'.type = "recompute" /\ sourceTextRect' # sourceTextRect) =>
       (showEntryPanel /\ selection.kind = "range")]_vars

IsStart(e) == e.type = "language" \/ (e.type = "hotkey" /\ e.arg = "range")

\* C11: every start, by a hotkey capture or by a language change, empties the
\* displayed text and sends exactly one request, whose uniqueId is the new
\* current session id and whose text is the new sourceText (the empty string
\* included); nothing else sends a request.
C11_StartResetsAndSendsOnce ==
  [][/\ IsStart(lastEvent') =>
          /\ targetText' = <<>>
          /\ textId' # textId
          /\ sent' = Append(sent, [uniqueId |-> textId', text |-> sourceText'])
     /\ sent' # sent => IsStart(lastEvent')]_vars

C11_Witness ==
  /\ lastEvent.type = "hotkey"
  /\ lastEvent.arg = "range"
  /\ sourceText = <<>>
  /\ sent = <<[uniqueId |-> textId, text |-> <<>>]>>

\* C12: the requests sent carry pairwise different uniqueIds, and the current
\* session id is the id of the last request, different from all earlier ones.
C12_SessionIdsUnique ==
  /\ \A i, j \in DOMAIN sent : i # j => sent[i].uniqueId # sent[j].uniqueId
  /\ sent # <<>> => textId = sent[Len(sent)].uniqueId
  /\ sent = <<>> => textId = 0

C12_Witness ==
  /\ Len(sent) = 2
  /\ lastEvent.type = "language"
  /\ sent[1].text = sent[2].text

\* C14: sourceText and the text of every request sent are at most
\* MAX_TRANSLATION_LENGTH characters long.
C14_CapturedTextCapped ==
  /\ Len(sourceText) <= MAX_TRANSLATION_LENGTH
  /\ \A i \in DOMAIN sent : Len(sent[i].text) <= MAX_TRANSLATION_LENGTH

C14_Witness ==
  /\ lastEvent.type = "hotkey"
  /\ lastEvent.arg = "range"
  /\ Len(trim(selection.text)) > MAX_TRANSLATION_LENGTH
  /\ Len(sourceText) = MAX_TRANSLATION_LENGTH
  /\ sent[Len(sent)].text = sourceText

\* C16: the anchor is always the horizontal midpoint of the stored rect and
\* its bottom plus 10; after a hotkey capture and after an effective recompute
\* that rect is the selection's bounding rect.
C16_AnchorIsBottomMiddle ==
  /\ 2 * entryPanelPosition.x = sourceTextRect.left + sourceTextRect.right
  /\ entryPanelPosition.y - sourceTextRect.bottom = 10
  /\ (\/ lastEvent.type = "hotkey" /\ lastEvent.arg = "range"
      \/ lastEvent.type = "recompute" /\ lastEvent.arg = "visible"
           /\ selection.kind = "range") =>
       entryPanelPosition = [x |-> 4, y |-> 34 - 4 * scrollY]

C16_Witness ==
  /\ lastEvent.type = "recompute"
  /\ lastEvent.arg = "visible"
  /\ selection.kind = "range"
  /\ showEntryPanel
  /\ scrollY = 1
  /\ entryPanelPosition = [x |-> 4, y |-> 30]

\* C17 (as claimed): whenever a channel message is processed, the id the
\* listener compares its uniqueId with is the id of the most recently started
\* session.
C17_ListenerHoldsCurrentId ==
  [][IsResponse(lastEvent') => listenerTextId = textId]_vars

\* C19 (as claimed): once an error carrying the current session id is on
\* display, the displayed text stays that message until a new session starts.
C19_ErroredIsTerminal ==
  [][(status = "Errored" /\ targetText \in ErrorMessages /\ textId' = textId)
       => targetText' = targetText]_vars

\* C15 (as claimed): when the overlay has stayed visible over a non-collapsed
\* selection since the last scroll event, with no hotkey or pointer-down, and
\* every pending recompute has run, the stored rect is the selection's
\* bounding rect at the final scroll position.
C15_FinalPositionKept ==
  (burst.steady /\ timers = <<>>) => sourceTextRect = getBoundingClientRect

StartsNothing(e) ==
  \/ e.type \in {"mousedown", "recompute"}
  \/ e.type = "hotkey" /\ e.arg \in {"null", "collapsed"}

\* C18: a hotkey press on a missing or collapsed selection, a scroll recompute
\* and a pointer-down (inside or outside the overlay) change neither the
\* session id, nor sourceText, nor the displayed text, and send no request;
\* a fragment carrying the current id is appended while the overlay is hidden.
C18_NonStartEventsKeepSession ==
  [][/\ StartsNothing(lastEvent') =>
          UNCHANGED <<textId, sourceText, targetText, idCounter, sent>>
     /\ (lastEvent'.type = "TRANSLATE_TEXT_PART" /\ lastEvent'.uid = textId
           /\ ~showEntryPanel) =>
          targetText' = targetText \o lastEvent'.arg]_vars

C18_Witness ==
  /\ lastEvent.type = "TRANSLATE_TEXT_PART"
  /\ lastEvent.uid = textId
  /\ ~showEntryPanel
  /\ targetText = <<"x", "x">>

\* C13 (as claimed): the hotkey is unbound on teardown: after Entry has
\* unmounted, a hotkey press captures nothing, changes no state and sends no
\* request; and whatever the mounts and unmounts before it, one press starts
\* at most one capture-and-translate.
C13_NoHotkeyAfterUnmount ==
  [][lastEvent'.type = "hotkey" =>
       /\ ~mounted => UNCHANGED <<react, idCounter, sent>>
       /\ idCounter' <= idCounter + 1
       /\ Len(sent') <= Len(sent) + 1]_vars

====
